---- MODULE Spec2Model ----
(***************************************************************************)
(* Model of pylib/genbase.py: GenBase.__init__ (the YAML merge) and        *)
(* _patchdata (naming, classification, class aggregation, property sort).  *)
(*                                                                         *)
(* A Python str is a sequence of one-character strings, a Python list a    *)
(* sequence, a Python dict a function whose DOMAIN is its key set, so that *)
(* `k in d` is k \in DOMAIN d.  A function dict is one object referenced   *)
(* from data['functions'], data['funcs'] and a class's props/funcs lists:  *)
(* the class lists hold the object's position in data['functions'].        *)
(***************************************************************************)
EXTENDS Integers, Sequences, FiniteSets, TLC

(***************************************************************************)
(* Python str operations used by genbase.py                                *)
(***************************************************************************)
LowerAlphabet == <<"a","b","c","d","e","f","g","h","i","j","k","l","m",
                   "n","o","p","q","r","s","t","u","v","w","x","y","z">>

UpperAlphabet == <<"A","B","C","D","E","F","G","H","I","J","K","L","M",
                   "N","O","P","Q","R","S","T","U","V","W","X","Y","Z">>

\* c.lower() of one character
lower(c) ==
    IF \E k \in DOMAIN UpperAlphabet : UpperAlphabet[k] = c
    THEN LowerAlphabet[CHOOSE k \in DOMAIN UpperAlphabet : UpperAlphabet[k] = c]
    ELSE c

\* c.upper() of one character
upper(c) ==
    IF \E k \in DOMAIN LowerAlphabet : LowerAlphabet[k] = c
    THEN UpperAlphabet[CHOOSE k \in DOMAIN LowerAlphabet : LowerAlphabet[k] = c]
    ELSE c

\* s.lower()
lowerstr(s) == [k \in DOMAIN s |-> lower(s[k])]

\* s[1:]
Rest(s) == SubSeq(s, 2, Len(s))

\* s[:-1]
ButLast(s) == SubSeq(s, 1, Len(s) - 1)

\* sub occurs in s at (1-based) position p
OccursAt(s, sub, p) ==
    /\ p >= 1
    /\ p + Len(sub) - 1 <= Len(s)
    /\ SubSeq(s, p, p + Len(sub) - 1) = sub

\* s.startswith(sub)
startswith(s, sub) == OccursAt(s, sub, 1)

\* s.endswith(sub)
endswith(s, sub) == OccursAt(s, sub, Len(s) - Len(sub) + 1)

\* sub in s
contains(s, sub) == \E p \in 1..(Len(s) + 1) : OccursAt(s, sub, p)

\* s.replace(old, new): leftmost non-overlapping occurrences; an empty old
\* matches before every character and at the end.
RECURSIVE replace(_, _, _)
replace(s, old, new) ==
    IF old = <<>>
    THEN IF s = <<>> THEN new
         ELSE new \o <<s[1]>> \o replace(Rest(s), old, new)
    ELSE IF s = <<>> THEN <<>>
         ELSE IF startswith(s, old)
              THEN new \o replace(SubSeq(s, Len(old) + 1, Len(s)), old, new)
              ELSE <<s[1]>> \o replace(Rest(s), old, new)

\* s.split(sep) with a non-empty separator: empty tokens are kept
RECURSIVE splitfrom(_, _, _)
splitfrom(s, sep, tok) ==
    IF s = <<>> THEN <<tok>>
    ELSE IF startswith(s, sep)
         THEN <<tok>> \o splitfrom(SubSeq(s, Len(sep) + 1, Len(s)), sep, <<>>)
         ELSE splitfrom(Rest(s), sep, tok \o <<s[1]>>)

split(s, sep) == splitfrom(s, sep, <<>>)

\* s.strip(): the model's only whitespace character is the blank
RECURSIVE lstrip(_)
lstrip(s) == IF s # <<>> /\ s[1] = " " THEN lstrip(Rest(s)) ELSE s

RECURSIVE rstrip(_)
rstrip(s) == IF s # <<>> /\ s[Len(s)] = " " THEN rstrip(ButLast(s)) ELSE s

strip(s) == rstrip(lstrip(s))

\* s[0].lower() + s[1:] and s[0].upper() + s[1:], for a non-empty s
\* (s[0] of an empty str raises IndexError: the callers test s first)
lowerfirst(s) == <<lower(s[1])>> \o Rest(s)

upperfirst(s) == <<upper(s[1])>> \o Rest(s)

(***************************************************************************)
(* Python dict operations                                                  *)
(***************************************************************************)
\* d[k] = v
Put(d, k, v) == [x \in DOMAIN d \cup {k} |-> IF x = k THEN v ELSE d[x]]

\* The dict after _getoradd(key, indict, value): its return value is
\* indict[key] of that dict.
getoraddOverwrite(key, indict, value) == Put(indict, key, value)

_getoradd(key, indict, value) ==
    IF key \notin DOMAIN indict THEN Put(indict, key, value) ELSE indict

(***************************************************************************)
(* String literals of genbase.py                                           *)
(***************************************************************************)
csm == <<"c","s","m">>

csmGet == <<"c","s","m","G","e","t">>

Gets == <<"G","e","t","s">>

Array == <<"A","r","r","a","y">>

Array2 == <<"A","r","r","a","y","2">>

StringArray == <<"S","t","r","i","n","g","A","r","r","a","y">>

Blank == <<" ">>

Star == <<"*">>

Warning == "THIS FILE WAS AUTO-GENERATED. ALL CHANGES WILL BE LOST UPON RE-GENERATION."

(***************************************************************************)
(* Naming Deriver: _topropname, _topropdoc, _tofuncname, _tofuncdoc.       *)
(* Each name is the stem of the function's first line with its first       *)
(* character re-cased; an empty stem makes stem[0] raise IndexError.       *)
(***************************************************************************)
propnamestem(func) ==
    replace(replace(replace(func.entry, csmGet, <<>>), func.class, <<>>),
            ButLast(func.class), <<>>)

_topropname(func) == lowerfirst(propnamestem(func))

propdocstem(func) == strip(replace(func.doc, Gets, <<>>))

_topropdoc(func) == upperfirst(propdocstem(func))

funcnamestem(func) ==
    replace(replace(replace(func.entry, csm, <<>>), func.class, <<>>),
            ButLast(func.class), <<>>)

tofuncnameKeepsCase(func) == funcnamestem(func)

_tofuncname(func) == lowerfirst(funcnamestem(func))

_tofuncdoc(func) == func.doc

(***************************************************************************)
(* Function Classifier.  The four shape predicates read                    *)
(* func['return']['type'] once _isproperty holds (KeyError when the        *)
(* function has no return); _patchdata calls them after line 205 has read  *)
(* the same field.                                                         *)
(***************************************************************************)
ispropertyPrefixOnly(func) == startswith(func.entry, csmGet)

_isproperty(func) ==
    IF ~startswith(func.entry, csmGet) THEN FALSE
    ELSE IF ~contains(func.entry, ButLast(func.class)) THEN FALSE
    ELSE TRUE

_isscalararray2property(func) ==
    IF ~_isproperty(func) THEN FALSE
    ELSE endswith(func.return.type, Array2)

isscalararraypropertyAnyArray(func) ==
    IF ~_isproperty(func) THEN FALSE
    ELSE endswith(func.return.type, Array)

_isscalararrayproperty(func) ==
    IF ~_isproperty(func) THEN FALSE
    ELSE IF ~endswith(func.return.type, Array) THEN FALSE
    ELSE func.return.type # StringArray

_isstringarrayproperty(func) ==
    IF ~_isproperty(func) THEN FALSE
    ELSE func.return.type = StringArray

_isscalarproperty(func) ==
    IF ~_isproperty(func) THEN FALSE
    ELSE IF _isscalararray2property(func) THEN FALSE
    ELSE IF _isscalararrayproperty(func) THEN FALSE
    ELSE IF _isstringarrayproperty(func) THEN FALSE
    ELSE TRUE

(***************************************************************************)
(* _patchdata, lines 149-162: enum and flag entries                        *)
(***************************************************************************)
entrystem(entry) == replace(entry.name, csm, <<>>)

\* lines 151-154; i is unused for an enum entry
patchenumentry(entry) ==
    [valuedoc |-> entry.doc,
     valuename |-> lowerfirst(entrystem(entry)),
     Valuename |-> entrystem(entry)] @@ entry

flagindexOneBased(entry, i) ==
    [flagdoc |-> entry.doc,
     flagname |-> lowerfirst(entrystem(entry)),
     Flagname |-> entrystem(entry),
     flagindex |-> i] @@ entry

\* lines 158-162; enumerate() counts from 0, sequences from 1
patchflagentry(entry, i) ==
    [flagdoc |-> entry.doc,
     flagname |-> lowerfirst(entrystem(entry)),
     Flagname |-> entrystem(entry),
     flagindex |-> i - 1] @@ entry

\* valuename[0] / flagname[0] of an empty stem raises IndexError
entriesraise(group) == \E i \in DOMAIN group.entries : entrystem(group.entries[i]) = <<>>

patchenum(enum) ==
    Put(enum, "entries", [i \in DOMAIN enum.entries |-> patchenumentry(enum.entries[i])])

patchflags(flags) ==
    Put(flags, "entries", [i \in DOMAIN flags.entries |-> patchflagentry(flags.entries[i], i)])

(***************************************************************************)
(* _patchdata, lines 164-194: one function                                 *)
(***************************************************************************)
\* lines 166-173: the key and the default record handed to _getoradd
classkey(func) == lowerfirst(func.class)

newclass(func) ==
    [doc |-> upperfirst(func.class),
     name |-> lowerfirst(func.class),
     Name |-> func.class,
     type |-> func.class,
     props |-> <<>>,
     funcs |-> <<>>]

\* lines 175-178
patcharg(arg) ==
    _getoradd("name", _getoradd("doc", arg, arg.type), lowerstr(arg.type))

patchargs(func) ==
    IF "args" \in DOMAIN func
    THEN Put(func, "args", [k \in DOMAIN func.args |-> patcharg(func.args[k])])
    ELSE func

\* lines 184-186
patchprop(func) ==
    [propdoc |-> _topropdoc(func),
     propname |-> _topropname(func),
     Propname |-> upperfirst(_topropname(func))] @@ func

\* lines 190-192
patchfunc(func) ==
    [funcdoc |-> _tofuncdoc(func),
     funcname |-> _tofuncname(func),
     Funcname |-> upperfirst(_tofuncname(func))] @@ func

\* The exception lines 166-192 raise for func, "" when they raise none:
\* func['class'][0], propdoc[0], propname[0], funcname[0] of an empty str.
funcraises(func) ==
    IF func.class = <<>> THEN "IndexError"
    ELSE IF _isproperty(func)
         THEN IF propdocstem(func) = <<>> \/ propnamestem(func) = <<>>
              THEN "IndexError" ELSE ""
         ELSE IF funcnamestem(func) = <<>> THEN "IndexError" ELSE ""

\* lines 183-194: the function dict after the branch taken
patchfunction(func) ==
    IF _isproperty(func) THEN patchprop(patchargs(func))
    ELSE patchfunc(patchargs(func))

\* lines 187-188 and 193-194: the class record after the append of the
\* function at position i of data['functions']
appendtoclass(c, func, i) ==
    IF _isproperty(func)
    THEN Put(Put(c, "hasprops", TRUE), "props", Append(c.props, i))
    ELSE Put(Put(c, "hasfuncs", TRUE), "funcs", Append(c.funcs, i))

(***************************************************************************)
(* _patchdata, lines 203-233: one property of one class                    *)
(***************************************************************************)
\* lines 204-206
commonfields(prop) ==
    [propdoc |-> _topropdoc(prop),
     proptype |-> prop.return.type,
     propget |-> prop.entry] @@ prop

\* lines 210-211 and 213-214: split('*')[1].strip()
starfactor(length) == strip(split(length, Star)[2])

array2fieldsAsOneD(prop) ==
    (IF contains(prop.return.length2, Star)
     THEN [proplength2factor |-> starfactor(prop.return.length2)]
     ELSE <<>>)
    @@ [propgetlength2 |-> split(prop.return.length2, Blank)[1]]
    @@ (IF contains(prop.return.length, Star)
        THEN [propgetlengthfactor |-> starfactor(prop.return.length)]
        ELSE <<>>)
    @@ [propscalartype |-> split(prop.proptype, Array)[1],
        propgetlength |-> split(prop.return.length, Blank)[1]]
    @@ prop

\* lines 208-214
array2fields(prop) ==
    (IF contains(prop.return.length2, Star)
     THEN [proplength2factor |-> starfactor(prop.return.length2)]
     ELSE <<>>)
    @@ [propgetlength2 |-> split(prop.return.length2, Blank)[1]]
    @@ (IF contains(prop.return.length, Star)
        THEN [proplengthfactor |-> starfactor(prop.return.length)]
        ELSE <<>>)
    @@ [propscalartype |-> split(prop.proptype, Array)[1],
        propgetlength |-> split(prop.return.length, Blank)[1]]
    @@ prop

\* lines 219-222: the factor is split(' ')[1].strip()
arrayfields(prop) ==
    (IF contains(prop.return.length, Star)
     THEN [propgetlengthfactor |-> strip(split(prop.return.length, Blank)[2])]
     ELSE <<>>)
    @@ [propscalartype |-> split(prop.proptype, Array)[1],
        propgetlength |-> split(prop.return.length, Blank)[1]]
    @@ prop

\* lines 226-227
stringarrayfields(prop) ==
    [propscalartype |-> prop.proptype,
     propgetlength |-> prop.return.length] @@ prop

\* line 232
scalarfields(prop) == [propscalartype |-> prop.proptype] @@ prop

\* The bucket lines 207-233 append prop to
bucketof(prop) ==
    IF _isscalararray2property(prop) THEN "scalararray2props"
    ELSE IF _isscalararrayproperty(prop) THEN "scalararrayprops"
    ELSE IF _isstringarrayproperty(prop) THEN "stringarrayprops"
    ELSE "scalarprops"

\* The exception lines 204-233 raise for prop, "" when they raise none
sortraises(prop) ==
    IF "return" \notin DOMAIN prop THEN "KeyError"
    ELSE IF bucketof(prop) = "scalararray2props"
    THEN IF {"length", "length2"} \subseteq DOMAIN prop.return THEN "" ELSE "KeyError"
    ELSE IF bucketof(prop) = "scalararrayprops"
    THEN IF "length" \notin DOMAIN prop.return THEN "KeyError"
         ELSE IF /\ contains(prop.return.length, Star)
                 /\ Len(split(prop.return.length, Blank)) < 2
              THEN "IndexError" ELSE ""
    ELSE IF bucketof(prop) = "stringarrayprops"
    THEN IF "length" \notin DOMAIN prop.return THEN "KeyError" ELSE ""
    ELSE IF ~_isscalarproperty(prop) THEN "AssertionError" ELSE ""

\* lines 204-233: the property dict after the branch taken
sortfields(prop) ==
    IF bucketof(prop) = "scalararray2props" THEN array2fields(commonfields(prop))
    ELSE IF bucketof(prop) = "scalararrayprops" THEN arrayfields(commonfields(prop))
    ELSE IF bucketof(prop) = "stringarrayprops" THEN stringarrayfields(commonfields(prop))
    ELSE scalarfields(commonfields(prop))

\* lines 215-216, 223, 228: the class record after the branch taken
sortflags(c, prop) ==
    IF bucketof(prop) = "scalararray2props"
    THEN Put(Put(c, "hasarrayprop", TRUE), "hasarray2prop", TRUE)
    ELSE IF bucketof(prop) = "scalarprops" THEN c
    ELSE Put(c, "hasarrayprop", TRUE)

(***************************************************************************)
(* Inputs: the YAML documents options.yamlfiles names                      *)
(***************************************************************************)
\* The longest options.yamlfiles the model draws
MaxDocs == 2

ModelId ==
    [entry |-> <<"c","s","m","G","e","t","M","o","d","e","l","I","d">>, class |-> <<"M","o","d","e","l">>, doc |-> <<"G","e","t","s"," ","i","d",".">>,
     return |-> [type |-> <<"I","n","t">>]]

ParameterCount ==
    [entry |-> <<"c","s","m","G","e","t","P","a","r","a","m","e","t","e","r","C","o","u","n","t">>, class |-> <<"M","o","d","e","l">>,
     doc |-> <<"G","e","t","s"," ","p","a","r","a","m","e","t","e","r"," ","c","o","u","n","t",".">>, return |-> [type |-> <<"I","n","t">>]]

UpdateModel ==
    [entry |-> <<"c","s","m","U","p","d","a","t","e","M","o","d","e","l">>, class |-> <<"M","o","d","e","l">>, doc |-> <<"U","p","d","a","t","e","s"," ","m","o","d","e","l",".">>]

PartOpacities ==
    [entry |-> <<"c","s","m","G","e","t","P","a","r","t","O","p","a","c","i","t","i","e","s">>, class |-> <<"P","a","r","t","s">>, doc |-> <<"G","e","t","s"," ","o","p","a","c","i","t","i","e","s",".">>,
     return |-> [type |-> <<"F","l","o","a","t","A","r","r","a","y">>, length |-> <<"c","o","u","n","t"," ","*"," ","1">>]]

PartUvs ==
    [entry |-> <<"c","s","m","G","e","t","P","a","r","t","U","v","s">>, class |-> <<"P","a","r","t","s">>, doc |-> <<"G","e","t","s"," ","u","v","s",".">>,
     return |-> [type |-> <<"F","l","o","a","t","A","r","r","a","y","2">>, length |-> <<"c","o","u","n","t"," ","*"," ","2">>, length2 |-> <<"n","*","3">>]]

PartIds ==
    [entry |-> <<"c","s","m","G","e","t","P","a","r","t","I","d","s">>, class |-> <<"P","a","r","t","s">>, doc |-> <<"G","e","t","s"," ","i","d","s",".">>,
     return |-> [type |-> <<"S","t","r","i","n","g","A","r","r","a","y">>, length |-> <<"c","o","u","n","t">>]]

PartMasks ==
    [entry |-> <<"c","s","m","G","e","t","P","a","r","t","M","a","s","k","s">>, class |-> <<"P","a","r","t","s">>, doc |-> <<"G","e","t","s"," ","m","a","s","k","s",".">>,
     return |-> [type |-> <<"I","n","t","A","r","r","a","y">>, length |-> <<"c","o","u","n","t">>]]

ModelMoc ==
    [entry |-> <<"c","s","m","G","e","t","M","o","d","e","l","M","o","c">>, class |-> <<"M","o","d","e","l">>, doc |-> <<"G","e","t","s"," ","m","o","c",".">>]

ResetPart ==
    [entry |-> <<"c","s","m","R","e","s","e","t","P","a","r","t">>, class |-> <<"p","a","r","t","s">>, doc |-> <<"R","e","s","e","t","s"," ","p","a","r","t",".">>,
     args |-> <<[type |-> <<"I","n","t">>], [type |-> <<"F","l","o","a","t">>, name |-> <<"f">>]>>]

FuncPool ==
    {ModelId, ParameterCount, UpdateModel, PartOpacities, PartUvs, PartIds,
     PartMasks, ModelMoc, ResetPart}

Version ==
    [name |-> <<"c","s","m","V","e","r","s","i","o","n">>,
     entries |-> <<[name |-> <<"c","s","m","V","e","r","s","i","o","n","A">>, doc |-> <<"F","i","r","s","t",".">>],
                   [name |-> <<"c","s","m","V","e","r","s","i","o","n","B">>, doc |-> <<"S","e","c","o","n","d",".">>]>>]

Align == [name |-> <<"c","s","m","A","l","i","g","n">>, entries |-> <<[name |-> <<"c","s","m","A","l","i","g","n","o","f","M","o","c">>, doc |-> <<"M","o","c",".">>]>>]

ConstantFlags ==
    [name |-> <<"c","s","m","C","o","n","s","t","a","n","t","F","l","a","g","s">>,
     entries |-> <<[name |-> <<"c","s","m","B","l","e","n","d","A","d","d","i","t","i","v","e">>, doc |-> <<"A","d","d","i","t","i","v","e",".">>],
                   [name |-> <<"c","s","m","B","l","e","n","d","M","u","l","t","i","p","l","i","c","a","t","i","v","e">>, doc |-> <<"M","u","l","t","i","p","l","i","c","a","t","i","v","e",".">>],
                   [name |-> <<"c","s","m","I","s","D","o","u","b","l","e","S","i","d","e","d">>, doc |-> <<"D","o","u","b","l","e"," ","s","i","d","e","d",".">>]>>]

DynamicFlags ==
    [name |-> <<"c","s","m","D","y","n","a","m","i","c","F","l","a","g","s">>,
     entries |-> <<[name |-> <<"c","s","m","I","s","V","i","s","i","b","l","e">>, doc |-> <<"V","i","s","i","b","l","e",".">>],
                   [name |-> <<"c","s","m","V","i","s","i","b","i","l","i","t","y","D","i","d","C","h","a","n","g","e">>, doc |-> <<"C","h","a","n","g","e","d",".">>]>>]

\* A document with the three recognized top-level keys
FullDocs ==
    {[enums |-> <<Version>>, flags |-> <<ConstantFlags>>, functions |-> fs] :
        fs \in {<<>>} \cup {<<f>> : f \in FuncPool}}

\* A fragment with some of them
FragmentDocs ==
    {[functions |-> <<f>>] : f \in FuncPool}
    \cup {[flags |-> <<DynamicFlags>>], [enums |-> <<Align>>],
          [enums |-> <<Version>>, functions |-> <<>>]}

DocPool == FullDocs \cup FragmentDocs

YamlFiles ==
    UNION {[1..n -> DocPool] : n \in 1..MaxDocs}

(***************************************************************************)
(* State                                                                   *)
(***************************************************************************)
VARIABLES
    yamlfiles,          \* options.yamlfiles, each already parsed by loadyaml
    pc,                 \* the statement __init__ / _patchdata is at
    err,                \* the exception that ended __init__, "" for none
    y,                  \* documents of yamlfiles merged so far
    yaml,               \* self.yaml
    data,               \* self.data
    clsmap,             \* _patchdata's clsmap
    idx,                \* functions of data['functions'] patched so far
    sorted,             \* keys of the classes lines 198-239 are done with
    cls,                \* {key} of the class being sorted, {} between classes
    j,                  \* properties of that class sorted so far
    scalarprops, scalararrayprops, scalararray2props, stringarrayprops

vars ==
    <<yamlfiles, pc, err, y, yaml, data, clsmap, idx, sorted, cls, j,
      scalarprops, scalararrayprops, scalararray2props, stringarrayprops>>

locals == <<sorted, cls, j, scalarprops, scalararrayprops, scalararray2props, stringarrayprops>>

Init ==
    /\ yamlfiles \in YamlFiles
    /\ pc = "load"
    /\ err = ""
    /\ y = 0
    /\ yaml = <<>>
    /\ data = <<>>
    /\ clsmap = <<>>
    /\ idx = 0
    /\ sorted = {}
    /\ cls = {}
    /\ j = 0
    /\ scalarprops = <<>>
    /\ scalararrayprops = <<>>
    /\ scalararray2props = <<>>
    /\ stringarrayprops = <<>>

(***************************************************************************)
(* GenBase.__init__, lines 27-41                                           *)
(***************************************************************************)
mergePrepend(base, b) ==
    [key \in DOMAIN base \cup DOMAIN b |->
        IF key \in DOMAIN b
        THEN IF key \in DOMAIN base THEN b[key] \o base[key] ELSE b[key]
        ELSE base[key]]

\* lines 33-37: self.yaml after the items of document b
merge(base, b) ==
    [key \in DOMAIN base \cup DOMAIN b |->
        IF key \in DOMAIN b
        THEN IF key \in DOMAIN base THEN base[key] \o b[key] ELSE b[key]
        ELSE base[key]]

\* line 27
LoadFirst ==
    /\ pc = "load" /\ y = 0
    /\ yaml' = yamlfiles[1]
    /\ y' = 1
    /\ UNCHANGED <<yamlfiles, pc, err, data, clsmap, idx, locals>>

\* lines 28-37, one document
MergeYaml ==
    /\ pc = "load" /\ y >= 1 /\ y < Len(yamlfiles)
    /\ yaml' = merge(yaml, yamlfiles[y + 1])
    /\ y' = y + 1
    /\ UNCHANGED <<yamlfiles, pc, err, data, clsmap, idx, locals>>

\* lines 39-42 and 147: the shallow copy shares every list with self.yaml
CopyData ==
    /\ pc = "load" /\ y >= 1 /\ y = Len(yamlfiles)
    /\ data' = Put(yaml, "autogeneratedwarning", Warning)
    /\ clsmap' = <<>>
    /\ pc' = "enums"
    /\ UNCHANGED <<yamlfiles, err, y, yaml, idx, locals>>

\* An exception leaves __init__: no instance, no presentation model
Raise(e) ==
    /\ pc' = "failed"
    /\ err' = e
    /\ UNCHANGED <<yamlfiles, y, yaml, data, clsmap, idx, locals>>

(***************************************************************************)
(* _patchdata                                                              *)
(***************************************************************************)
\* A list of data patched in place is the list self.yaml holds under the
\* same key, and data['funcs'] is data['functions']
store(d, key, list) ==
    [k \in DOMAIN d |->
        IF k = key \/ (key = "functions" /\ k = "funcs") THEN list ELSE d[k]]

\* lines 149-154
PatchEnums ==
    /\ pc = "enums"
    /\ IF "enums" \notin DOMAIN data THEN Raise("KeyError")
       ELSE IF \E k \in DOMAIN data.enums : entriesraise(data.enums[k])
       THEN Raise("IndexError")
       ELSE LET new == [k \in DOMAIN data.enums |-> patchenum(data.enums[k])]
            IN /\ data' = store(data, "enums", new)
               /\ yaml' = store(yaml, "enums", new)
               /\ pc' = "flags"
               /\ UNCHANGED <<yamlfiles, err, y, clsmap, idx, locals>>

\* lines 156-162
PatchFlags ==
    /\ pc = "flags"
    /\ IF "flags" \notin DOMAIN data THEN Raise("KeyError")
       ELSE IF \E k \in DOMAIN data.flags : entriesraise(data.flags[k])
       THEN Raise("IndexError")
       ELSE LET new == [k \in DOMAIN data.flags |-> patchflags(data.flags[k])]
            IN /\ data' = store(data, "flags", new)
               /\ yaml' = store(yaml, "flags", new)
               /\ pc' = "functions"
               /\ UNCHANGED <<yamlfiles, err, y, clsmap, idx, locals>>

\* lines 164-194, one function
PatchFunction ==
    /\ pc = "functions"
    /\ IF "functions" \notin DOMAIN data THEN Raise("KeyError")
       ELSE /\ idx < Len(data.functions)
            /\ LET func == data.functions[idx + 1]
               IN IF funcraises(func) # "" THEN Raise(funcraises(func))
                  ELSE LET key == classkey(func)
                           added == _getoradd(key, clsmap, newclass(func))
                           new == [data.functions EXCEPT ![idx + 1] = patchfunction(func)]
                       IN /\ clsmap' = Put(added, key, appendtoclass(added[key], func, idx + 1))
                          /\ data' = store(data, "functions", new)
                          /\ yaml' = store(yaml, "functions", new)
                          /\ idx' = idx + 1
                          /\ UNCHANGED <<yamlfiles, pc, err, y, locals>>

\* line 196
AliasFuncs ==
    /\ pc = "functions"
    /\ "functions" \in DOMAIN data
    /\ idx = Len(data.functions)
    /\ data' = Put(data, "funcs", data.functions)
    /\ pc' = "sort"
    /\ UNCHANGED <<yamlfiles, err, y, yaml, clsmap, idx, locals>>

\* lines 198-202: itervalues() yields the classes in no specified order
SortBegin ==
    /\ pc = "sort" /\ cls = {}
    /\ \E key \in DOMAIN clsmap \ sorted :
           /\ cls' = {key}
           /\ j' = 0
           /\ scalarprops' = <<>>
           /\ scalararrayprops' = <<>>
           /\ scalararray2props' = <<>>
           /\ stringarrayprops' = <<>>
    /\ UNCHANGED <<yamlfiles, pc, err, y, yaml, data, clsmap, idx, sorted>>

\* lines 203-233, one property
SortProp ==
    /\ pc = "sort" /\ cls # {}
    /\ LET key == CHOOSE k \in cls : TRUE
           i == clsmap[key].props[j + 1]
           prop == data.functions[i]
           bucket == bucketof(prop)
           new == [data.functions EXCEPT ![i] = sortfields(prop)]
       IN /\ j < Len(clsmap[key].props)
          /\ IF sortraises(prop) # "" THEN Raise(sortraises(prop))
             ELSE /\ data' = store(data, "functions", new)
                  /\ yaml' = store(yaml, "functions", new)
                  /\ clsmap' = Put(clsmap, key, sortflags(clsmap[key], prop))
                  /\ scalarprops' =
                         IF bucket = "scalarprops" THEN Append(scalarprops, i) ELSE scalarprops
                  /\ scalararrayprops' =
                         IF bucket = "scalararrayprops" THEN Append(scalararrayprops, i)
                         ELSE scalararrayprops
                  /\ scalararray2props' =
                         IF bucket = "scalararray2props" THEN Append(scalararray2props, i)
                         ELSE scalararray2props
                  /\ stringarrayprops' =
                         IF bucket = "stringarrayprops" THEN Append(stringarrayprops, i)
                         ELSE stringarrayprops
                  /\ j' = j + 1
                  /\ UNCHANGED <<yamlfiles, pc, err, y, idx, sorted, cls>>

withbucketsCopyPaste(c, sp, sap, sa2p, strp) ==
    Put(Put(Put(Put(c, "scalarprops", sp), "scalararrayprops", sap),
            "scalararray2props", sap), "stringarrayprops", strp)

\* lines 234-237: the class record with its four buckets
withbuckets(c, sp, sap, sa2p, strp) ==
    Put(Put(Put(Put(c, "scalarprops", sp), "scalararrayprops", sap),
            "scalararray2props", sa2p), "stringarrayprops", strp)

\* lines 234-239
SortEnd ==
    /\ pc = "sort" /\ cls # {}
    /\ LET key == CHOOSE k \in cls : TRUE
       IN /\ j = Len(clsmap[key].props)
          /\ IF Len(clsmap[key].props) #
                  Len(scalarprops) + Len(scalararrayprops)
                  + Len(scalararray2props) + Len(stringarrayprops)
             THEN Raise("AssertionError")
             ELSE /\ clsmap' = Put(clsmap, key,
                                   withbuckets(clsmap[key], scalarprops, scalararrayprops,
                                               scalararray2props, stringarrayprops))
                  /\ sorted' = sorted \cup {key}
                  /\ cls' = {}
                  /\ UNCHANGED <<yamlfiles, pc, err, y, yaml, data, idx, j, scalarprops,
                                 scalararrayprops, scalararray2props, stringarrayprops>>

\* lines 241-242
StoreClsmap ==
    /\ pc = "sort" /\ cls = {} /\ sorted = DOMAIN clsmap
    /\ data' = Put(data, "clsmap", clsmap)
    /\ pc' = "done"
    /\ UNCHANGED <<yamlfiles, err, y, yaml, clsmap, idx, locals>>

Next ==
    \/ LoadFirst
    \/ MergeYaml
    \/ CopyData
    \/ PatchEnums
    \/ PatchFlags
    \/ PatchFunction
    \/ AliasFuncs
    \/ SortBegin
    \/ SortProp
    \/ SortEnd
    \/ StoreClsmap

Spec == Init /\ [][Next]_vars

(***************************************************************************)
(* Properties                                                              *)
(***************************************************************************)
Range(s) == {s[k] : k \in DOMAIN s}

Increasing(s) == \A a, b \in DOMAIN s : a < b => s[a] < s[b]

\* The values of top-level key `key` in the first n documents, in order
RECURSIVE keyvalues(_, _)
keyvalues(key, n) ==
    IF n = 0 THEN <<>>
    ELSE keyvalues(key, n - 1)
         \o (IF key \in DOMAIN yamlfiles[n] THEN yamlfiles[n][key] ELSE <<>>)

\* The documents among the first n that have top-level key `key`
docswith(key, n) == {d \in 1..n : key \in DOMAIN yamlfiles[d]}

\* The functions the first loop of _patchdata is done with
Patched == 1..idx

\* Bucket `name` of class k: the stored list, or the local one of the class
\* being sorted
bucket(k, name) ==
    IF k \in sorted THEN clsmap[k][name]
    ELSE IF k \in cls
    THEN CASE name = "scalarprops" -> scalarprops
           [] name = "scalararrayprops" -> scalararrayprops
           [] name = "scalararray2props" -> scalararray2props
           [] name = "stringarrayprops" -> stringarrayprops
    ELSE <<>>

\* The functions appended to bucket `name` of some class
Bucketed(name) == UNION {Range(bucket(k, name)) : k \in DOMAIN clsmap}

BucketNames == {"scalarprops", "scalararrayprops", "scalararray2props", "stringarrayprops"}

\* The functions appended to the funcs list of some class
Methods == UNION {Range(clsmap[k].funcs) : k \in DOMAIN clsmap}

\* The functions appended to the props list of some class
Props == UNION {Range(clsmap[k].props) : k \in DOMAIN clsmap}

\* C1: once _patchdata has completed, the four buckets of every class record
\* of clsmap are pairwise disjoint, hold no element twice and together hold
\* exactly the elements of props, so the four lengths add up to len(props);
\* and the count assertion of line 239 never fails.
C1_Partition ==
    /\ err # "AssertionError"
    /\ pc = "done" =>
         \A k \in DOMAIN data.clsmap :
            LET c == data.clsmap[k]
            IN /\ \A a, b \in BucketNames : a # b => Range(c[a]) \cap Range(c[b]) = {}
               /\ \A a \in BucketNames : Cardinality(Range(c[a])) = Len(c[a])
               /\ UNION {Range(c[a]) : a \in BucketNames} = Range(c.props)
               /\ Len(c.props) =
                    Len(c.scalarprops) + Len(c.scalararrayprops)
                    + Len(c.scalararray2props) + Len(c.stringarrayprops)

C1_Witness ==
    /\ pc = "done"
    /\ \E k \in DOMAIN data.clsmap :
          /\ Len(data.clsmap[k].props) >= 2
          /\ Len(data.clsmap[k].scalararrayprops) = 1
          /\ Len(data.clsmap[k].stringarrayprops) = 1

\* The classifications that hold of func
classifications(func) ==
    {c \in {"method", "scalar", "scalararray", "scalararray2", "stringarray"} :
        CASE c = "method" -> ~_isproperty(func)
          [] c = "scalar" -> _isscalarproperty(func)
          [] c = "scalararray" -> _isscalararrayproperty(func)
          [] c = "scalararray2" -> _isscalararray2property(func)
          [] c = "stringarray" -> _isstringarrayproperty(func)}

C3_Merge ==
    (pc = "load" /\ y >= 1) =>
        /\ DOMAIN yaml = UNION {DOMAIN yamlfiles[d] : d \in 1..y}
        /\ \A key \in DOMAIN yaml :
              /\ yaml[key] = keyvalues(key, y)
              /\ \A d \in 1..y : docswith(key, y) = {d} => yaml[key] = yamlfiles[d][key]

C3_Witness ==
    /\ pc = "load" /\ y = 2
    /\ \E key \in DOMAIN yaml :
          /\ docswith(key, y) = {1, 2}
          /\ yamlfiles[1][key] # <<>>
          /\ yamlfiles[2][key] # yamlfiles[1][key]
    /\ \E key \in DOMAIN yaml : docswith(key, y) = {2}

\* C4: after the flags are patched, every flag set has its original entries
\* in their original order, and the entry at 0-based position i has
\* flagindex i.
C4_FlagIndex ==
    pc \in {"functions", "sort", "done"} =>
        LET orig == keyvalues("flags", Len(yamlfiles))
        IN /\ Len(data.flags) = Len(orig)
           /\ \A k \in DOMAIN data.flags :
                 /\ Len(data.flags[k].entries) = Len(orig[k].entries)
                 /\ \A i \in DOMAIN data.flags[k].entries :
                       /\ data.flags[k].entries[i].name = orig[k].entries[i].name
                       /\ data.flags[k].entries[i].flagindex = i - 1

C4_Witness ==
    /\ pc = "done"
    /\ Len(data.flags) = 2
    /\ Len(data.flags[1].entries) = 3

\* The function of the csmGetParameterCount scenario
IsParameterCount(func) ==
    /\ func.entry = <<"c","s","m","G","e","t","P","a","r","a","m","e","t","e","r","C","o","u","n","t">>
    /\ func.class = <<"M","o","d","e","l">>
    /\ func.doc = <<"G","e","t","s"," ","p","a","r","a","m","e","t","e","r"," ","c","o","u","n","t",".">>
    /\ "return" \in DOMAIN func
    /\ func.return.type = <<"I","n","t">>

\* C5 as claimed: the csmGetParameterCount function of class Model is
\* appended to the props of class Model with propname "parameterCount" and
\* propdoc "Parameter count.", and ends up in scalarprops.
C5_Claimed ==
    \A i \in Patched :
        IsParameterCount(data.functions[i]) =>
            /\ i \in Range(clsmap[<<"m","o","d","e","l">>].props)
            /\ "propname" \in DOMAIN data.functions[i]
            /\ data.functions[i].propname = <<"p","a","r","a","m","e","t","e","r","C","o","u","n","t">>
            /\ "propdoc" \in DOMAIN data.functions[i]
            /\ data.functions[i].propdoc = <<"P","a","r","a","m","e","t","e","r"," ","c","o","u","n","t",".">>
            /\ pc = "done" => i \in Range(clsmap[<<"m","o","d","e","l">>].scalarprops)

\* C5 amended: the csmGetParameterCount function of class Model is a method
\* ("Mode" does not occur in its entry): it is appended to the funcs of
\* class model, never to props or a bucket, with funcname
\* "getParameterCount" and without propname or propdoc, although
\* _topropname and _topropdoc map it to "parameterCount" and
\* "Parameter count.".
C5_Method ==
    \A i \in Patched :
        IsParameterCount(data.functions[i]) =>
            /\ i \in Range(clsmap[<<"m","o","d","e","l">>].funcs)
            /\ i \notin Props
            /\ \A a \in BucketNames : i \notin Bucketed(a)
            /\ data.functions[i].funcname = <<"g","e","t","P","a","r","a","m","e","t","e","r","C","o","u","n","t">>
            /\ {"propname", "propdoc"} \cap DOMAIN data.functions[i] = {}
            /\ _topropname(data.functions[i]) = <<"p","a","r","a","m","e","t","e","r","C","o","u","n","t">>
            /\ _topropdoc(data.functions[i]) = <<"P","a","r","a","m","e","t","e","r"," ","c","o","u","n","t",".">>

C5_Witness ==
    /\ pc = "done"
    /\ \E i \in Patched : IsParameterCount(data.functions[i])

\* C6 as claimed: a 1D scalar-array property has propscalartype = its return
\* type without the trailing "Array", propgetlength = the first blank-
\* separated token of its length expression and, for a length expression
\* "<name> * <factor>", propgetlengthfactor = <factor>
\* ("count * 1" gives "1").
C6_Claimed ==
    \A i \in Bucketed("scalararrayprops") :
        LET prop == data.functions[i]
            type == prop.return.type
            tokens == split(prop.return.length, Blank)
        IN /\ prop.propscalartype = SubSeq(type, 1, Len(type) - Len(Array))
           /\ prop.propgetlength = tokens[1]
           /\ (Len(tokens) = 3 /\ tokens[2] = Star) =>
                 /\ "propgetlengthfactor" \in DOMAIN prop
                 /\ prop.propgetlengthfactor = tokens[3]
           /\ (type = <<"F","l","o","a","t","A","r","r","a","y">> /\ prop.return.length = <<"c","o","u","n","t"," ","*"," ","1">>) =>
                 /\ prop.propscalartype = <<"F","l","o","a","t">>
                 /\ prop.propgetlength = <<"c","o","u","n","t">>
                 /\ "propgetlengthfactor" \in DOMAIN prop
                 /\ prop.propgetlengthfactor = <<"1">>

\* C7: a function whose entry does not start with "csmGet" is a method: it
\* is in the funcs of its class, in no props, and its funcname is its entry
\* without "csm", the class name and the class name less its last
\* character, first character lower-cased (csmUpdateModel of class Model:
\* "update").
C7_Method ==
    \A i \in Patched :
        LET func == data.functions[i]
            stem == replace(replace(replace(func.entry, <<"c","s","m">>, <<>>), func.class, <<>>),
                            SubSeq(func.class, 1, Len(func.class) - 1), <<>>)
        IN ~startswith(func.entry, <<"c","s","m","G","e","t">>) =>
              /\ i \in Range(clsmap[<<lower(func.class[1])>> \o Rest(func.class)].funcs)
              /\ i \notin Props
              /\ func.funcname = <<lower(stem[1])>> \o Rest(stem)
              /\ (func.entry = <<"c","s","m","U","p","d","a","t","e","M","o","d","e","l">> /\ func.class = <<"M","o","d","e","l">>) =>
                    func.funcname = <<"u","p","d","a","t","e">>

C7_Witness ==
    \E i \in Patched :
        /\ data.functions[i].entry = <<"c","s","m","U","p","d","a","t","e","M","o","d","e","l">>
        /\ data.functions[i].class = <<"M","o","d","e","l">>
        /\ i \in Methods

\* C8 as claimed: on a schema with the three top-level keys, _patchdata
\* completes or stops at one of the two assertions; it raises nothing else.
C8_Claimed ==
    (pc = "failed" /\ {"enums", "flags", "functions"} \subseteq DOMAIN data) =>
        err = "AssertionError"

\* C9: clsmap has one record per lower-first class name of the functions
\* patched so far; the record is the one made for the first of them (never
\* replaced by a later reference); each patched function is in the props or
\* the funcs (not both) of the record of its own class and in no other, and
\* both lists are in input order.
C9_Aggregation ==
    LET key(i) == <<lower(data.functions[i].class[1])>> \o Rest(data.functions[i].class)
        members(k) == {i \in Patched : key(i) = k}
    IN /\ DOMAIN clsmap = {key(i) : i \in Patched}
       /\ \A k \in DOMAIN clsmap :
             LET first == CHOOSE i \in members(k) : \A m \in members(k) : i <= m
             IN /\ clsmap[k].Name = data.functions[first].class
                /\ clsmap[k].name = k
                /\ Range(clsmap[k].props) \cup Range(clsmap[k].funcs) = members(k)
                /\ Range(clsmap[k].props) \cap Range(clsmap[k].funcs) = {}
                /\ Len(clsmap[k].props) + Len(clsmap[k].funcs) = Cardinality(members(k))
                /\ Increasing(clsmap[k].props)
                /\ Increasing(clsmap[k].funcs)

C9_Witness ==
    /\ pc = "done"
    /\ idx = 2
    /\ data.functions[1].class = <<"P","a","r","t","s">>
    /\ data.functions[2].class = <<"p","a","r","t","s">>
    /\ Len(clsmap[<<"p","a","r","t","s">>].props) = 1
    /\ Len(clsmap[<<"p","a","r","t","s">>].funcs) = 1

\* C10 as claimed: a 2D scalar-array property has the 1D fields and those of
\* its second length: propgetlengthfactor when its first length expression
\* contains "*", proplength2factor when its second does, each the trimmed
\* second token of the expression split on "*".
C10_Claimed ==
    \A i \in Bucketed("scalararray2props") :
        LET prop == data.functions[i]
        IN /\ prop.propscalartype = split(prop.return.type, <<"A","r","r","a","y">>)[1]
           /\ prop.propgetlength = split(prop.return.length, Blank)[1]
           /\ prop.propgetlength2 = split(prop.return.length2, Blank)[1]
           /\ contains(prop.return.length, Star) =>
                 /\ "propgetlengthfactor" \in DOMAIN prop
                 /\ prop.propgetlengthfactor = strip(split(prop.return.length, Star)[2])
           /\ contains(prop.return.length2, Star) =>
                 /\ "proplength2factor" \in DOMAIN prop
                 /\ prop.proplength2factor = strip(split(prop.return.length2, Star)[2])

\* C10 amended: a 2D scalar-array property has propscalartype and
\* propgetlength by the 1D rules and propgetlength2 for its second length;
\* the factor of its first length expression is stored as proplengthfactor
\* (not under the 1D name propgetlengthfactor) when that expression contains
\* "*", the factor of the second as proplength2factor when that one does,
\* each the trimmed second token of the expression split on "*".
C10_Array2Fields ==
    \A i \in Bucketed("scalararray2props") :
        LET prop == data.functions[i]
        IN /\ prop.propscalartype = split(prop.return.type, <<"A","r","r","a","y">>)[1]
           /\ prop.propgetlength = split(prop.return.length, Blank)[1]
           /\ prop.propgetlength2 = split(prop.return.length2, Blank)[1]
           /\ "propgetlengthfactor" \notin DOMAIN prop
           /\ contains(prop.return.length, Star) <=> "proplengthfactor" \in DOMAIN prop
           /\ contains(prop.return.length, Star) =>
                 prop.proplengthfactor = strip(split(prop.return.length, Star)[2])
           /\ contains(prop.return.length2, Star) <=> "proplength2factor" \in DOMAIN prop
           /\ contains(prop.return.length2, Star) =>
                 prop.proplength2factor = strip(split(prop.return.length2, Star)[2])

C10_Witness ==
    /\ pc = "done"
    /\ \E i \in Bucketed("scalararray2props") :
          /\ data.functions[i].proplengthfactor = <<"2">>
          /\ data.functions[i].proplength2factor = <<"3">>

====
